---- MODULE Spec2Model ----
(***************************************************************************)
(* State-machine model of src/mcp-client/client.py: the MCP client that    *)
(* launches a tool server over stdio, performs the handshake, and runs an  *)
(* interactive loop in which each query is sent to the model and the       *)
(* model's tool_use blocks are forwarded to the server.                    *)
(*                                                                         *)
(* Strings are sequences of one-character strings where the code looks     *)
(* inside them (script path, input line); the transcript is a sequence of  *)
(* pieces, so that "\n".join is distinguishable from plain concatenation.  *)
(***************************************************************************)
EXTENDS Integers, Sequences, FiniteSets, TLC

\* ------------------------------------------------------------------ bounds
MaxBlocks == 2      \* longest model response (number of content blocks)
MaxQueries == 2     \* queries submitted by the user in one run

IdStride == 10      \* ids of the blocks of the r-th response: r*IdStride + position

\* ------------------------------------------------------------ input domains
\* sys.argv[1:]: nothing, or one script path
Paths ==
    { <<"s", ".", "p", "y">>,
      <<"s", ".", "j", "s">>,
      <<"s", ".", "t", "x", "t">>,
      <<"s", ".", "P", "Y">>,
      <<"p", "y">>,
      <<"s", ".", "p", "y", ".", "t">> }

Argvs == { <<>> } \cup { <<p>> : p \in Paths }

\* lines typed at the "Query: " prompt
Lines ==
    { <<"q", "u", "i", "t">>,
      <<" ", "Q", "u", "I", "T", " ">>,
      <<"q", "u", "i", "t", "s">>,
      <<" ", "h", "i">> }

Texts == { "Hello", "World" }
\* the tool_use requests the model may make: name and arguments
ToolUses == { [name |-> "lookup", input |-> "x1"], [name |-> "alerts", input |-> "x2"] }
ToolResults == { "42" }

\* the catalogs session.list_tools() may return (the server's tools can change)
Catalogs ==
    { <<>>,
      <<[name |-> "lookup", description |-> "look up", inputSchema |-> "schema"]>> }

\* content blocks as the model produces them (ids are attached on receipt)
RawBlocks ==
    { [type |-> "text", text |-> t] : t \in Texts }
    \cup { [type |-> "tool_use", name |-> u.name, input |-> u.input] : u \in ToolUses }

RawResponses == UNION { [1..n -> RawBlocks] : n \in 0..MaxBlocks }

\* ------------------------------------------------------------ pure helpers
\* str.endswith
EndsWith(s, suf) ==
    /\ Len(s) >= Len(suf)
    /\ SubSeq(s, Len(s) - Len(suf) + 1, Len(s)) = suf

LowerChar(c) ==
    CASE c = "Q" -> "q"
      [] c = "U" -> "u"
      [] c = "I" -> "i"
      [] c = "T" -> "t"
      [] c = "P" -> "p"
      [] c = "Y" -> "y"
      [] OTHER -> c

\* str.lower
Lower(s) == [i \in 1..Len(s) |-> LowerChar(s[i])]

RECURSIVE LStrip(_)
LStrip(s) == IF s # <<>> /\ Head(s) = " " THEN LStrip(Tail(s)) ELSE s

RECURSIVE RStrip(_)
RStrip(s) == IF s # <<>> /\ s[Len(s)] = " " THEN RStrip(SubSeq(s, 1, Len(s) - 1)) ELSE s

\* str.strip
Strip(s) == RStrip(LStrip(s))

\* variant of Join that concatenates without a separator
Join_NoSeparator(ps) == ps

\* "\n".join(final_text): the pieces separated by newline pieces
RECURSIVE Join(_)
Join(ps) ==
    IF Len(ps) = 0 THEN <<>>
    ELSE IF Len(ps) = 1 THEN <<ps[1]>>
    ELSE <<ps[1], "\n">> \o Join(Tail(ps))

\* f"[Calling tool {tool_name} with args {tool_args}]"
Annotation(name, args) ==
    CASE name = "lookup" /\ args = "x1" -> "[Calling tool lookup with args x1]"
      [] name = "lookup" /\ args = "x2" -> "[Calling tool lookup with args x2]"
      [] name = "alerts" /\ args = "x1" -> "[Calling tool alerts with args x1]"
      [] name = "alerts" /\ args = "x2" -> "[Calling tool alerts with args x2]"

\* lines 94-98: the tool descriptors in the shape the model provider expects
Adapt(tools) ==
    [i \in 1..Len(tools) |->
        [name |-> tools[i].name,
         description |-> tools[i].description,
         input_schema |-> tools[i].inputSchema]]

\* the response object the SDK hands back: the raw blocks, tool_use blocks with their id
WithIds(raw, r) ==
    [i \in 1..Len(raw) |->
        IF raw[i].type = "tool_use"
        THEN [type |-> "tool_use", id |-> r * IdStride + i,
              name |-> raw[i].name, input |-> raw[i].input]
        ELSE raw[i]]

IsToolUse(b) == b.type = "tool_use"

HasToolUse(content) == \E i \in 1..Len(content) : IsToolUse(content[i])

RECURSIVE SelectBlocks(_, _)
SelectBlocks(content, kind) ==
    IF content = <<>> THEN <<>>
    ELSE IF Head(content).type = kind
         THEN <<Head(content)>> \o SelectBlocks(Tail(content), kind)
         ELSE SelectBlocks(Tail(content), kind)

\* ------------------------------------------------------------------- state
VARIABLES
    bound,          \* are the module-level callables attributes of MCPClient?
    argv,           \* sys.argv[1:]
    pc,             \* position of the single flow of control
    exc,            \* exception in flight / handed to the except clause
    exit_code,      \* process exit status, -1 while running
    session,        \* self.session: "None", "open", "closed"
    initialized,    \* the handshake of self.session has completed
    exit_stack,     \* self.exit_stack: the contexts entered, oldest first
    cleaned,        \* self.exit_stack.aclose() has run
    anthropic,      \* self.anthropic
    proc,           \* the server subprocess: "none", "python", "node", "terminated"
    premature,      \* some list_tools/call_tool was issued before the handshake
    nq,             \* queries submitted so far
    output,         \* what chat_loop printed last
    query,          \* process_query: the query argument
    messages,       \* process_query: messages
    amc,            \* process_query: assistant_message_content
    final_text,     \* process_query: final_text
    iter_content,   \* process_query: the list the for loop iterates
    idx,            \* process_query: position of the for loop in iter_content
    response,       \* process_query: response.content
    result,         \* process_query: the returned string
    n_list,         \* list_tools calls of the current query
    n_model,        \* model calls of the current query
    tool_calls,     \* call_tool calls of the current query, in order
    followup_tool_use, \* some follow-up response of the current query held a tool_use block
    available_tools, \* process_query: available_tools
    tools_sent,     \* the tools argument of the latest model call
    typed           \* the line input() returned last

clientVars == <<session, initialized, exit_stack, cleaned, anthropic, proc>>
queryVars == <<query, messages, amc, final_text, iter_content, idx, response,
               available_tools>>
ghostVars == <<n_list, n_model, tool_calls, followup_tool_use, tools_sent, typed>>
vars == <<bound, argv, pc, exc, exit_code, clientVars, premature, nq, output,
          queryVars, result, ghostVars>>

NoLocals ==
    /\ query = <<>>
    /\ messages = <<>>
    /\ amc = <<>>
    /\ final_text = <<>>
    /\ iter_content = <<>>
    /\ idx = 0
    /\ response = <<>>
    /\ available_tools = <<>>

\* the names the class statement of MCPClient binds; the async callables are
\* defined at module level, so they are attributes only if bound onto it
HasAttr(name) ==
    \/ name \in {"session", "exit_stack", "anthropic"}
    \/ bound

Init ==
    /\ bound \in BOOLEAN
    /\ argv \in Argvs
    /\ pc = "main"
    /\ exc = "none"
    /\ exit_code = -1
    /\ session = "None"
    /\ initialized = FALSE
    /\ exit_stack = <<>>
    /\ cleaned = FALSE
    /\ anthropic = "None"
    /\ proc = "none"
    /\ premature = FALSE
    /\ nq = 0
    /\ output = <<>>
    /\ NoLocals
    /\ result = <<>>
    /\ n_list = 0
    /\ n_model = 0
    /\ tool_calls = <<>>
    /\ followup_tool_use = FALSE
    /\ tools_sent = <<>>
    /\ typed = <<>>

\* ------------------------------------------------------------------- main
\* main, lines 183-187: usage check, then MCPClient()
MainStart ==
    /\ pc = "main"
    /\ IF Len(argv) < 1
       THEN /\ pc' = "exit"
            /\ exit_code' = 1
            /\ output' = <<"Usage">>
            /\ UNCHANGED anthropic
       ELSE /\ pc' = "try"
            /\ anthropic' = "Anthropic"
            /\ UNCHANGED <<exit_code, output>>
    /\ UNCHANGED <<bound, argv, exc, session, initialized, exit_stack, cleaned, proc,
                   premature, nq, queryVars, result, ghostVars>>

\* main, line 190: client.connect_to_server(sys.argv[1])
MainConnect ==
    /\ pc = "try"
    /\ IF HasAttr("connect_to_server")
       THEN pc' = "cs_check" /\ UNCHANGED exc
       ELSE pc' = "finally" /\ exc' = "AttributeError"
    /\ UNCHANGED <<bound, argv, exit_code, clientVars, premature, nq, output,
                   queryVars, result, ghostVars>>

\* ------------------------------------------------------ connect_to_server
\* variant of IsPython that forgets the dot of the extension
IsPython_NoDot(path) == EndsWith(path, <<"p", "y">>)

\* line 53
IsPython(path) == EndsWith(path, <<".", "p", "y">>)
\* line 54
IsJs(path) == EndsWith(path, <<".", "j", "s">>)

\* line 58
Command(path) == IF IsPython(path) THEN "python" ELSE "node"

\* lines 53-56: the extension check
CS_Check ==
    /\ pc = "cs_check"
    /\ IF ~(IsPython(argv[1]) \/ IsJs(argv[1]))
       THEN pc' = "finally" /\ exc' = "ValueError"
       ELSE pc' = "cs_stdio" /\ UNCHANGED exc
    /\ UNCHANGED <<bound, argv, exit_code, clientVars, premature, nq, output,
                   queryVars, result, ghostVars>>

\* lines 58-70: enter stdio_client(server_params); the subprocess is spawned
\* and the context registered, or the context manager raises and nothing is
CS_Stdio ==
    /\ pc = "cs_stdio"
    /\ \/ /\ proc' = Command(argv[1])
          /\ exit_stack' = Append(exit_stack, "stdio")
          /\ pc' = "cs_session"
          /\ UNCHANGED exc
       \/ /\ pc' = "finally"
          /\ exc' = "ConnectError"
          /\ UNCHANGED <<proc, exit_stack>>
    /\ UNCHANGED <<bound, argv, exit_code, session, initialized, cleaned, anthropic,
                   premature, nq, output, queryVars, result, ghostVars>>

\* line 71: enter ClientSession(self.stdio, self.write)
CS_Session ==
    /\ pc = "cs_session"
    /\ session' = "open"
    /\ exit_stack' = Append(exit_stack, "session")
    /\ pc' = "cs_initialize"
    /\ UNCHANGED <<bound, argv, exc, exit_code, initialized, cleaned, anthropic, proc,
                   premature, nq, output, queryVars, result, ghostVars>>

\* variant of CS_Initialize that goes on to list_tools whatever the handshake did
CS_Initialize_Unchecked ==
    /\ pc = "cs_initialize"
    /\ initialized' \in BOOLEAN
    /\ pc' = "cs_list"
    /\ UNCHANGED <<bound, argv, exc, exit_code, session, exit_stack, cleaned, anthropic,
                   proc, premature, nq, output, queryVars, result, ghostVars>>

\* line 74: await self.session.initialize()
CS_Initialize ==
    /\ pc = "cs_initialize"
    /\ \/ /\ initialized' = TRUE
          /\ pc' = "cs_list"
          /\ UNCHANGED exc
       \/ /\ pc' = "finally"
          /\ exc' = "McpError"
          /\ UNCHANGED initialized
    /\ UNCHANGED <<bound, argv, exit_code, session, exit_stack, cleaned, anthropic, proc,
                   premature, nq, output, queryVars, result, ghostVars>>

\* lines 77-79: await self.session.list_tools(), print the tool names
CS_ListTools ==
    /\ pc = "cs_list"
    /\ premature' = (premature \/ ~initialized)
    /\ \/ /\ pc' = "chat"
          /\ output' = <<"Connected">>
          /\ UNCHANGED exc
       \/ /\ pc' = "finally"
          /\ exc' = "McpError"
          /\ UNCHANGED output
    /\ UNCHANGED <<bound, argv, exit_code, clientVars, nq, queryVars, result, ghostVars>>

\* main, line 191: client.chat_loop()
MainChat ==
    /\ pc = "chat"
    /\ IF HasAttr("chat_loop")
       THEN pc' = "cl_input" /\ UNCHANGED exc
       ELSE pc' = "finally" /\ exc' = "AttributeError"
    /\ UNCHANGED <<bound, argv, exit_code, clientVars, premature, nq, output,
                   queryVars, result, ghostVars>>

\* ------------------------------------------------------------- chat_loop
\* variant of AtPrompt in which the prompt is also served while a model call
\* of the previous query is awaited
AtPrompt_Concurrent == pc \in {"cl_input", "pq_followup"}

\* lines 162-164: the loop reads a line only at the top of an iteration, after
\* the awaited process_query of the previous one has returned or raised
AtPrompt == pc = "cl_input"

\* variant of IsQuit that compares without lower-casing
IsQuit_CaseSensitive(line) == Strip(line) = <<"q", "u", "i", "t">>

\* line 166: query.lower() == 'quit', query being the stripped line
IsQuit(line) == Lower(Strip(line)) = <<"q", "u", "i", "t">>

\* lines 163-170: prompt and read a line; quit leaves the loop, anything else
\* is a query.  input() itself may raise: EOFError is an Exception and reaches
\* the except clause, KeyboardInterrupt is not and leaves chat_loop.
CL_Input ==
    /\ AtPrompt
    /\ output' = <<"\nQuery: ">>
    /\ \/ \E line \in Lines :
            /\ typed' = line
            /\ IF IsQuit(line)
               THEN /\ pc' = "finally"
                    /\ UNCHANGED <<exc, query, nq>>
               ELSE /\ nq < MaxQueries
                    /\ nq' = nq + 1
                    /\ IF HasAttr("process_query")
                       THEN /\ pc' = "pq_start"
                            /\ query' = Strip(line)
                            /\ UNCHANGED exc
                       ELSE /\ pc' = "cl_except"
                            /\ exc' = "AttributeError"
                            /\ UNCHANGED query
       \/ /\ nq < MaxQueries
          /\ nq' = nq + 1
          /\ pc' = "cl_except"
          /\ exc' = "EOFError"
          /\ typed' = <<>>
          /\ UNCHANGED query
       \/ /\ pc' = "finally"
          /\ exc' = "KeyboardInterrupt"
          /\ typed' = <<>>
          /\ UNCHANGED <<query, nq>>
    /\ UNCHANGED <<bound, argv, exit_code, clientVars, premature,
                   messages, amc, final_text, iter_content, idx, response,
                   available_tools, result, n_list, n_model, tool_calls,
                   followup_tool_use, tools_sent>>

\* line 171: print the response
CL_Print ==
    /\ pc = "cl_print"
    /\ output' = <<"\n">> \o result
    /\ pc' = "cl_input"
    /\ UNCHANGED <<bound, argv, exc, exit_code, clientVars, premature, nq,
                   queryVars, result, ghostVars>>

\* variant of CL_Except that reports the error and lets it leave the loop
CL_Except_Reraise ==
    /\ pc = "cl_except"
    /\ output' = <<"\nError: ", exc>>
    /\ pc' = "finally"
    /\ UNCHANGED <<bound, argv, exc, exit_code, clientVars, premature, nq,
                   queryVars, result, ghostVars>>

\* lines 173-174: except Exception: print the error, next iteration
CL_Except ==
    /\ pc = "cl_except"
    /\ output' = <<"\nError: ", exc>>
    /\ exc' = "none"
    /\ pc' = "cl_input"
    /\ UNCHANGED <<bound, argv, exit_code, clientVars, premature, nq,
                   queryVars, result, ghostVars>>

\* ---------------------------------------------------------------- cleanup
\* cleanup, line 178: self.exit_stack.aclose() exits every registered context
Aclose(stack) == <<>>

Registered(stack, ctx) == \E i \in 1..Len(stack) : stack[i] = ctx

\* variant of Cleanup that exits the newest context only
Cleanup_NewestOnly(c) ==
    IF c.exit_stack = <<>> THEN c
    ELSE [exit_stack |-> SubSeq(c.exit_stack, 1, Len(c.exit_stack) - 1),
          session |-> IF c.exit_stack[Len(c.exit_stack)] = "session"
                      THEN "closed" ELSE c.session,
          proc |-> IF c.exit_stack[Len(c.exit_stack)] = "stdio"
                   THEN "terminated" ELSE c.proc]

\* cleanup, lines 176-178, on the resources of the client: every registered
\* context is exited (the session closed, the subprocess terminated)
Cleanup(c) ==
    [exit_stack |-> Aclose(c.exit_stack),
     session |-> IF Registered(c.exit_stack, "session") THEN "closed" ELSE c.session,
     proc |-> IF Registered(c.exit_stack, "stdio") THEN "terminated" ELSE c.proc]

Resources == [exit_stack |-> exit_stack, session |-> session, proc |-> proc]

\* main, lines 192-194: the finally clause, then the pending exception (if any)
\* leaves main and asyncio.run
MainFinally ==
    /\ pc = "finally"
    /\ pc' = "exit"
    /\ IF HasAttr("cleanup")
       THEN /\ exit_stack' = Cleanup(Resources).exit_stack
            /\ session' = Cleanup(Resources).session
            /\ proc' = Cleanup(Resources).proc
            /\ cleaned' = TRUE
            /\ exit_code' = IF exc = "none" THEN 0 ELSE 1
            /\ UNCHANGED exc
       ELSE /\ exc' = "AttributeError"
            /\ exit_code' = 1
            /\ UNCHANGED <<exit_stack, cleaned, session, proc>>
    /\ UNCHANGED <<bound, argv, initialized, anthropic, premature, nq, output,
                   queryVars, result, ghostVars>>

\* ---------------------------------------------------------- process_query
\* the list object assistant_message_content is stored in the assistant
\* message itself (line 130), not a copy of it
AmcRef == "assistant_message_content"

UserMessage(q) == [role |-> "user", content |-> q]
AssistantMessage(c) == [role |-> "assistant", content |-> c]
ToolResultMessage(id, res) ==
    [role |-> "user",
     content |-> <<[type |-> "tool_result", tool_use_id |-> id, content |-> res]>>]

\* the messages as the provider (or any reader) sees them
History(msgs, buf) ==
    [i \in 1..Len(msgs) |->
        IF msgs[i].content = AmcRef THEN AssistantMessage(buf) ELSE msgs[i]]


\* line 123: the arguments of session.call_tool
ToolCall(block) == [name |-> block.name, input |-> block.input]

\* the requests a response makes, in the order of its blocks
Requests(content) ==
    LET tus == SelectBlocks(content, "tool_use")
    IN  [i \in 1..Len(tus) |-> [name |-> tus[i].name, input |-> tus[i].input]]

\* the frame of process_query is gone once it returns or raises
DropLocals ==
    /\ query' = <<>>
    /\ messages' = <<>>
    /\ amc' = <<>>
    /\ final_text' = <<>>
    /\ iter_content' = <<>>
    /\ idx' = 0
    /\ response' = <<>>
    /\ available_tools' = <<>>

\* an exception leaves process_query and reaches the except clause of chat_loop
Raise(e) ==
    /\ pc' = "cl_except"
    /\ exc' = e
    /\ DropLocals

\* lines 85-98: seed the history, fetch and adapt the tool catalog
PQ_Start ==
    /\ pc = "pq_start"
    /\ n_list' = 1
    /\ n_model' = 0
    /\ tool_calls' = <<>>
    /\ followup_tool_use' = FALSE
    /\ result' = <<>>
    /\ IF session = "None"
       THEN /\ Raise("AttributeError")
            /\ UNCHANGED premature
       ELSE /\ premature' = (premature \/ ~initialized)
            /\ \/ \E catalog \in Catalogs :
                    /\ messages' = <<UserMessage(query)>>
                    /\ available_tools' = Adapt(catalog)
                    /\ pc' = "pq_model"
                    /\ UNCHANGED <<exc, query, amc, final_text, iter_content, idx,
                                   response>>
               \/ Raise("McpError")
    /\ UNCHANGED <<bound, argv, exit_code, clientVars, nq, output, tools_sent, typed>>

\* lines 101-112: the initial model call; the for loop starts on its content
PQ_Model ==
    /\ pc = "pq_model"
    /\ n_model' = n_model + 1
    /\ tools_sent' = available_tools
    /\ \/ \E raw \in RawResponses :
            /\ response' = WithIds(raw, n_model)
            /\ iter_content' = WithIds(raw, n_model)
            /\ idx' = 1
            /\ final_text' = <<>>
            /\ amc' = <<>>
            /\ pc' = "pq_scan"
            /\ UNCHANGED <<exc, query, messages, available_tools>>
       \/ Raise("APIError")
    /\ UNCHANGED <<bound, argv, exit_code, clientVars, premature, nq, output,
                   result, n_list, tool_calls, followup_tool_use, typed>>

\* lines 113-116: a text block
PQ_ScanText ==
    /\ pc = "pq_scan"
    /\ idx <= Len(iter_content)
    /\ iter_content[idx].type = "text"
    /\ final_text' = Append(final_text, iter_content[idx].text)
    /\ amc' = Append(amc, iter_content[idx])
    /\ idx' = idx + 1
    /\ UNCHANGED <<bound, argv, pc, exc, exit_code, clientVars, premature, nq, output,
                   query, messages, iter_content, response, available_tools, result,
                   ghostVars>>

\* variant of Commit that appends the tool result before the assistant turn
Commit_ResultFirst(msgs, block, res) ==
    msgs \o <<ToolResultMessage(block.id, res), AssistantMessage(AmcRef)>>

\* lines 127-141: the two messages appended after a tool call
Commit(msgs, block, res) ==
    msgs \o <<AssistantMessage(AmcRef), ToolResultMessage(block.id, res)>>

\* variant of PQ_CallTool that swallows a failed call and scans on
PQ_CallTool_Swallow ==
    /\ pc = "pq_scan"
    /\ idx <= Len(iter_content)
    /\ iter_content[idx].type = "tool_use"
    /\ premature' = (premature \/ ~initialized)
    /\ tool_calls' = Append(tool_calls, ToolCall(iter_content[idx]))
    /\ \/ \E res \in ToolResults :
            /\ final_text' = Append(final_text,
                    Annotation(iter_content[idx].name, iter_content[idx].input))
            /\ amc' = Append(amc, iter_content[idx])
            /\ messages' = Commit(messages, iter_content[idx], res)
            /\ pc' = "pq_followup"
            /\ UNCHANGED <<exc, query, iter_content, idx, response, available_tools>>
       \/ /\ idx' = idx + 1
          /\ UNCHANGED <<pc, exc, query, messages, amc, final_text, iter_content, response,
                         available_tools>>
    /\ UNCHANGED <<bound, argv, exit_code, clientVars, nq, output,
                   result, n_list, n_model, followup_tool_use, tools_sent, typed>>

\* lines 117-141: a tool_use block: call the tool, then record call and result
PQ_CallTool ==
    /\ pc = "pq_scan"
    /\ idx <= Len(iter_content)
    /\ iter_content[idx].type = "tool_use"
    /\ premature' = (premature \/ ~initialized)
    /\ tool_calls' = Append(tool_calls, ToolCall(iter_content[idx]))
    /\ \/ \E res \in ToolResults :
            /\ final_text' = Append(final_text,
                    Annotation(iter_content[idx].name, iter_content[idx].input))
            /\ amc' = Append(amc, iter_content[idx])
            /\ messages' = Commit(messages, iter_content[idx], res)
            /\ pc' = "pq_followup"
            /\ UNCHANGED <<exc, query, iter_content, idx, response, available_tools>>
       \/ Raise("McpError")
    /\ UNCHANGED <<bound, argv, exit_code, clientVars, nq, output,
                   result, n_list, n_model, followup_tool_use, tools_sent, typed>>

\* variant of PQ_FollowUp that fetches the catalog again before the model call
PQ_FollowUp_Refetch ==
    /\ pc = "pq_followup"
    /\ n_model' = n_model + 1
    /\ n_list' = n_list + 1
    /\ \E catalog \in Catalogs : tools_sent' = Adapt(catalog)
    /\ \/ \E raw \in RawResponses :
            /\ followup_tool_use' = (followup_tool_use \/ HasToolUse(raw))
            /\ IF Len(raw) = 0
               THEN Raise("IndexError")
               ELSE IF raw[1].type # "text"
               THEN Raise("AttributeError")
               ELSE /\ response' = WithIds(raw, n_model)
                    /\ final_text' = Append(final_text, raw[1].text)
                    /\ idx' = idx + 1
                    /\ pc' = "pq_scan"
                    /\ UNCHANGED <<exc, query, messages, amc, iter_content,
                                   available_tools>>
       \/ /\ Raise("APIError")
          /\ UNCHANGED followup_tool_use
    /\ UNCHANGED <<bound, argv, exit_code, clientVars, premature, nq, output,
                   result, tool_calls, typed>>

\* lines 144-152: the follow-up model call; its first block must be text
PQ_FollowUp ==
    /\ pc = "pq_followup"
    /\ n_model' = n_model + 1
    /\ tools_sent' = available_tools
    /\ \/ \E raw \in RawResponses :
            /\ followup_tool_use' = (followup_tool_use \/ HasToolUse(raw))
            /\ IF Len(raw) = 0
               THEN Raise("IndexError")
               ELSE IF raw[1].type # "text"
               THEN Raise("AttributeError")
               ELSE /\ response' = WithIds(raw, n_model)
                    /\ final_text' = Append(final_text, raw[1].text)
                    /\ idx' = idx + 1
                    /\ pc' = "pq_scan"
                    /\ UNCHANGED <<exc, query, messages, amc, iter_content,
                                   available_tools>>
       \/ /\ Raise("APIError")
          /\ UNCHANGED followup_tool_use
    /\ UNCHANGED <<bound, argv, exit_code, clientVars, premature, nq, output,
                   result, n_list, tool_calls, typed>>

\* line 154: the for loop is exhausted
PQ_Return ==
    /\ pc = "pq_scan"
    /\ idx > Len(iter_content)
    /\ result' = Join(final_text)
    /\ pc' = "cl_print"
    /\ DropLocals
    /\ UNCHANGED <<bound, argv, exc, exit_code, clientVars, premature, nq, output,
                   ghostVars>>

\* ------------------------------------------------------------ specification
Next ==
    \/ MainStart
    \/ MainConnect
    \/ CS_Check
    \/ CS_Stdio
    \/ CS_Session
    \/ CS_Initialize
    \/ CS_ListTools
    \/ MainChat
    \/ CL_Input
    \/ CL_Print
    \/ CL_Except
    \/ PQ_Start
    \/ PQ_Model
    \/ PQ_ScanText
    \/ PQ_CallTool
    \/ PQ_FollowUp
    \/ PQ_Return
    \/ MainFinally

Spec == Init /\ [][Next]_vars

\* ------------------------------------------------------------------ claims
Returns == pc = "pq_scan" /\ pc' = "cl_print"

\* C1: process_query returns only after a model response without tool_use
\* block, and by then every tool_use block of every response it received
\* (the first and the follow-ups) has been forwarded to session.call_tool.
C1_RepeatsUntilNoToolUse ==
    [][Returns => (/\ ~HasToolUse(response)
                   /\ ~followup_tool_use
                   /\ tool_calls = Requests(iter_content))]_vars

\* C2 (as stated): a query whose model response has no tool_use block makes
\* exactly one model call and no tool call, and returns the plain
\* concatenation of the response's text blocks.
TextsOf(content) ==
    LET ts == SelectBlocks(content, "text")
    IN  [i \in 1..Len(ts) |-> ts[i].text]

C2_ReturnsConcatenation ==
    [][(Returns /\ ~HasToolUse(iter_content))
        => (n_model = 1 /\ tool_calls = <<>> /\ result' = TextsOf(iter_content))]_vars

\* the text blocks, in order, with a newline between consecutive ones
NewlineSeparated(ts) ==
    [k \in 1..(IF Len(ts) = 0 THEN 0 ELSE 2 * Len(ts) - 1) |->
        IF k % 2 = 1 THEN ts[(k + 1) \div 2] ELSE "\n"]

\* C2 (amended): a query whose model response has no tool_use block makes
\* exactly one model call and no tool call, and returns the response's text
\* blocks, in order, joined by newlines.
C2_ReturnsTextJoinedByNewline ==
    [][(Returns /\ ~HasToolUse(iter_content))
        => (n_model = 1 /\ tool_calls = <<>>
            /\ result' = NewlineSeparated(TextsOf(iter_content)))]_vars

C2_Witness ==
    /\ pc = "cl_print"
    /\ n_model = 1
    /\ tool_calls = <<>>
    /\ result = <<"Hello", "\n", "World">>

\* C3: when process_query returns, call_tool has been invoked once per
\* tool_use block of every response received, with that block's name and
\* input, in the order of the blocks: first the calls of the first response,
\* then calls for the tool_use blocks of the follow-up responses, if any.
C3_OneCallPerToolUseBlock ==
    [][Returns =>
        LET first == Requests(iter_content)
        IN  /\ Len(tool_calls) >= Len(first)
            /\ SubSeq(tool_calls, 1, Len(first)) = first
            /\ followup_tool_use => Len(tool_calls) > Len(first)]_vars

\* the positions of the assistant messages of a history
AssistantPositions(h) == { i \in 1..Len(h) : h[i].role = "assistant" }

\* id of the last tool_use block of the history before position i, 0 if none
RECURSIVE LastToolUseId(_, _)
LastToolUseId(h, i) ==
    IF i = 0 THEN 0
    ELSE IF h[i].role = "assistant" /\ HasToolUse(h[i].content)
         THEN LET tus == SelectBlocks(h[i].content, "tool_use") IN tus[Len(tus)].id
         ELSE LastToolUseId(h, i - 1)

\* C4: every tool_result message of the history carries the id of the
\* tool_use block that immediately precedes it in the history.
C4_ResultFollowsItsToolUse ==
    LET h == History(messages, amc)
    IN  \A i \in 1..Len(h) :
            (h[i].role = "user" /\ i > 1)
                => h[i].content[1].tool_use_id = LastToolUseId(h, i - 1)

\* C5: one model turn leaves at most one assistant message in the history,
\* followed by a user message with a single tool_result, and no assistant
\* message holds a tool_use block whose result was committed before it.
C5_OneAssistantMessagePerTurn ==
    LET h == History(messages, amc)
    IN  /\ Cardinality(AssistantPositions(h)) <= 1
        /\ \A i \in AssistantPositions(h) :
              /\ i < Len(h)
              /\ h[i + 1].role = "user"
              /\ Len(h[i + 1].content) = 1
              /\ h[i + 1].content[1].type = "tool_result"
              /\ \A j \in 1..(i - 1) : \A k \in 1..Len(h[i].content) :
                    (h[j].role = "user" /\ j > 1 /\ IsToolUse(h[i].content[k]))
                        => h[j].content[1].tool_use_id # h[i].content[k].id

\* C6: a failing call_tool ends the query at once: the error reaches the
\* except clause of the caller, the frame (history included) is gone, no
\* model call and no tool call follows until a new query starts, and the new
\* query starts from a history holding its own text only.
CallToolFails ==
    /\ pc = "pq_scan"
    /\ idx <= Len(iter_content)
    /\ IsToolUse(iter_content[idx])
    /\ pc' # "pq_followup"

C6_ToolFailureAbortsQuery ==
    [][/\ CallToolFails =>
            /\ pc' = "cl_except"
            /\ exc' = "McpError"
            /\ messages' = <<>>
            /\ n_model' = n_model
            /\ tool_calls' = Append(tool_calls, [name |-> iter_content[idx].name,
                                                 input |-> iter_content[idx].input])
       /\ pc \in {"cl_except", "cl_input"} =>
            /\ messages' = <<>>
            /\ UNCHANGED <<n_model, tool_calls>>
       /\ (pc = "pq_start" /\ pc' = "pq_model") =>
            messages' = <<[role |-> "user", content |-> query]>>
      ]_vars

C6_Witness ==
    /\ pc = "cl_except"
    /\ exc = "McpError"
    /\ Len(tool_calls) = 1
    /\ n_model = 1

\* C7: an exception of one query reaches the except clause with the client
\* state untouched; the clause reports it and goes back to the prompt, the
\* session still open and initialized, nothing released.
C7_ErrorAbortsOnlyTheQuery ==
    [][/\ pc' = "cl_except" => UNCHANGED clientVars
       /\ pc = "cl_except" =>
            /\ pc' = "cl_input"
            /\ output' = <<"\nError: ", exc>>
            /\ UNCHANGED clientVars
            /\ session = "open"
            /\ initialized
            /\ exit_stack = <<"stdio", "session">>
            /\ ~cleaned
            /\ anthropic = "Anthropic"
      ]_vars

\* the second query has been submitted after a first one whose only tool call
\* failed (one model call, one tool call, no follow-up)
C7_Witness ==
    /\ pc = "pq_start"
    /\ nq = 2
    /\ n_model = 1
    /\ Len(tool_calls) = 1
    /\ session = "open"
    /\ initialized
    /\ exit_stack = <<"stdio", "session">>

\* C8: once main has created the client, the program ends only after
\* cleanup has run: the exit stack is closed, session and subprocess released.
C8_CleanupOnEveryExitPath ==
    (pc = "exit" /\ anthropic = "Anthropic")
        => (cleaned /\ exit_stack = <<>> /\ session # "open"
            /\ proc \notin {"python", "node"})

C10_InterpreterFromExtension ==
    argv # <<>> =>
        LET p == argv[1]
            py == EndsWith(p, <<".", "p", "y">>)
            js == EndsWith(p, <<".", "j", "s">>)
        IN  /\ pc = "cs_session" => proc = (IF py THEN "python" ELSE "node")
            /\ proc = "python" => py
            /\ proc = "node" => js
            /\ ~(py \/ js) =>
                  /\ proc = "none"
                  /\ exit_stack = <<>>
                  /\ session = "None"
                  /\ pc \in {"main", "try", "cs_check", "finally", "exit"}
                  /\ (pc = "finally" /\ bound) => exc = "ValueError"

C10_Witness ==
    /\ pc = "finally"
    /\ exc = "ValueError"
    /\ argv = << <<"s", ".", "p", "y", ".", "t">> >>
    /\ proc = "none"
    /\ exit_stack = <<>>

\* steps inside one call of process_query
InQuery == pc \in {"pq_model", "pq_scan", "pq_followup"}
StaysInQuery == InQuery /\ pc' \in {"pq_model", "pq_scan", "pq_followup"}

\* C11: the catalog is fetched once, when process_query starts and before
\* its first model call; it is never fetched again during the query, and
\* every model call of the query is given the catalog fetched at its start.
C11_CatalogFetchedOncePerQuery ==
    [][/\ (pc = "pq_start" /\ pc' = "pq_model") =>
            /\ n_list' = 1
            /\ n_model' = 0
            /\ available_tools' \in
                 { <<>>,
                   <<[name |-> "lookup", description |-> "look up",
                      input_schema |-> "schema"]>> }
       /\ InQuery => n_list' = n_list
       /\ StaysInQuery => available_tools' = available_tools
       /\ (InQuery /\ n_model' # n_model) => tools_sent' = available_tools
      ]_vars

\* the second query has fetched a catalog that differs from the one the
\* model calls of the first query were given
C11_Witness ==
    /\ pc = "pq_model"
    /\ nq = 2
    /\ n_list = 1
    /\ n_model = 0
    /\ tools_sent # <<>>
    /\ available_tools = <<>>

\* C12: the history of a query starts as one user message holding the query
\* text; from then on every step of the query leaves the earlier history as
\* a prefix of the later one (messages are appended, never changed).
C12_HistoryAppendOnly ==
    [][/\ (pc = "pq_start" /\ pc' = "pq_model") =>
            History(messages', amc') = <<[role |-> "user", content |-> query]>>
       /\ StaysInQuery =>
            LET before == History(messages, amc)
                after == History(messages', amc')
            IN  /\ Len(after) >= Len(before)
                /\ SubSeq(after, 1, Len(before)) = before
      ]_vars

\* the members of seq that are in set, in order
RECURSIVE Restrict(_, _)
Restrict(seq, set) ==
    IF seq = <<>> THEN <<>>
    ELSE IF Head(seq) \in set
         THEN <<Head(seq)>> \o Restrict(Tail(seq), set)
         ELSE Restrict(Tail(seq), set)

Occurrences(x, seq) == Cardinality({ i \in 1..Len(seq) : seq[i] = x })

\* C13: the returned transcript holds every text block of every response
\* received (here: of the first response and of the latest one, as often as
\* they occur) and, in order, one annotation per tool call executed.
C13_ResultIsFullTranscript ==
    [][Returns =>
        /\ \A t \in {"Hello", "World"} :
              Occurrences(t, result') >=
                  Occurrences(t, TextsOf(iter_content))
                  + (IF n_model > 1 THEN Occurrences(t, TextsOf(response)) ELSE 0)
        /\ Restrict(result', {"[Calling tool lookup with args x1]",
                              "[Calling tool alerts with args x2]"})
             = [i \in 1..Len(tool_calls) |->
                    IF tool_calls[i].name = "lookup"
                    THEN "[Calling tool lookup with args x1]"
                    ELSE "[Calling tool alerts with args x2]"]
      ]_vars

\* C14: a line that is quit, in any letter case and with blanks around it,
\* leaves the loop without any model call, list_tools or call_tool; cleanup
\* then runs and the program ends with status 0.
C14_QuitEndsTheSession ==
    [][/\ (pc = "cl_input"
           /\ typed' \in { <<"q", "u", "i", "t">>, <<" ", "Q", "u", "I", "T", " ">> }) =>
            /\ pc' = "finally"
            /\ exc' = "none"
            /\ UNCHANGED <<n_list, n_model, tool_calls, tools_sent, premature, nq>>
       /\ (pc = "finally"
           /\ typed \in { <<"q", "u", "i", "t">>, <<" ", "Q", "u", "I", "T", " ">> }) =>
            /\ pc' = "exit"
            /\ cleaned'
            /\ exit_stack' = <<>>
            /\ exit_code' = 0
      ]_vars

C14_Witness ==
    /\ pc = "exit"
    /\ typed = <<" ", "Q", "u", "I", "T", " ">>
    /\ cleaned
    /\ proc = "terminated"
    /\ exit_code = 0

C16_OneQueryInFlight ==
    [][/\ pc' = "pq_start" =>
            /\ pc = "cl_input"
            /\ nq' = nq + 1
            /\ messages = <<>> /\ amc = <<>> /\ final_text = <<>>
            /\ iter_content = <<>> /\ response = <<>>
       /\ pc \in {"pq_start", "pq_model", "pq_scan", "pq_followup"} =>
            /\ nq' = nq
            /\ pc' \in {"pq_model", "pq_scan", "pq_followup", "cl_print", "cl_except"}
            /\ pc' \in {"pq_model", "pq_scan", "pq_followup"} => query' = query
       /\ (n_list' # n_list \/ n_model' # n_model \/ tool_calls' # tool_calls) =>
            pc \in {"pq_start", "pq_model", "pq_scan", "pq_followup"}
      ]_vars

\* the second query is submitted after the first one has returned, its two
\* tool calls and three model calls done
C16_Witness ==
    /\ pc = "pq_start"
    /\ nq = 2
    /\ exc = "none"
    /\ Len(tool_calls) = 2
    /\ n_model = 3
    /\ result # <<>>
    /\ messages = <<>>

\* C17: a query in which no list_tools, model or tool call fails ends by
\* returning, after exactly k tool calls and k + 1 model calls, k being the
\* number of tool_use blocks of the first response.
C17_ReturnsAfterKToolCalls ==
    [][(/\ pc \in {"pq_model", "pq_scan", "pq_followup"}
        /\ pc' \notin {"pq_model", "pq_scan", "pq_followup"}
        /\ exc' \notin {"McpError", "APIError"}) =>
            /\ pc' = "cl_print"
            /\ Len(tool_calls') = Len(SelectBlocks(iter_content, "tool_use"))
            /\ n_model' = Len(SelectBlocks(iter_content, "tool_use")) + 1
      ]_vars

\* C18: the history sent with a model call has 1 + 2j messages after j tool
\* calls, its roles alternate from user to user, and every assistant message
\* is followed at once by a user message that holds one tool_result.
C18_HistoryAlternates ==
    pc \in {"pq_model", "pq_followup"} =>
        LET h == History(messages, amc)
        IN  /\ Len(h) = 1 + 2 * Len(tool_calls)
            /\ \A i \in 1..Len(h) :
                  h[i].role = IF i % 2 = 1 THEN "user" ELSE "assistant"
            /\ h[1].content = query
            /\ \A i \in 1..Len(h) :
                  h[i].role = "assistant" =>
                      /\ i < Len(h)
                      /\ h[i + 1].role = "user"
                      /\ Len(h[i + 1].content) = 1
                      /\ h[i + 1].content[1].type = "tool_result"

\* the third model call of a query is about to be made, after two tool calls
C18_Witness ==
    /\ pc = "pq_followup"
    /\ Len(tool_calls) = 2
    /\ Len(messages) = 5
    /\ messages[5].content[1].type = "tool_result"

====
